---- MODULE Spec2Model ----
(***************************************************************************)
(* A model of the screenshot checker backend: the five analyzers           *)
(* (backend/analyzers), the score aggregator (backend/utils/               *)
(* image_helpers.py), the quantization-table parser and the request        *)
(* handler (backend/app.py).                                               *)
(*                                                                         *)
(* Numbers.  Python floats are modelled as scaled integers: an overall     *)
(* score and a weighted score are kept in TENTHS of a point (the code      *)
(* rounds both to one decimal), a weight and an unrounded weighted sum in  *)
(* HUNDREDTHS.  round(x, 1) of a binary double whose decimal value lies    *)
(* exactly between two tenths goes to either neighbour, depending on the   *)
(* representation error of the double; the model records which way each    *)
(* rounding of one evaluation went in the variable fp.                     *)
(***************************************************************************)
EXTENDS Integers, Sequences, FiniteSets, TLC

VARIABLES
    pc,         \* position of the handler, or of the function under analysis
    fn,         \* the analyzer called (SpecUnit)
    file,       \* the image file: what Pillow and numpy read and measure from it
    ext,        \* the extension of the path the file is stored under
    report,     \* the value returned by the analyzer called, or None
    results,    \* the results dict, as the sequence of its items in insertion order
    overall,    \* the value returned by calculate_suspicion_score, or None
    fp,         \* how the roundings of the last aggregation went at ties
    upload,     \* the request: whether it carries a file, and the file's name
    tmp_exists, \* whether the temporary file of the request exists
    response,   \* the response of the handler, or None
    prev,       \* the file and the report of the last successful request, or None
    nreq,       \* the number of requests received
    qt_data,    \* _extract_quantization_tables: the bytes read from the file
    qt_i,       \* its scan index i
    qt_tables,  \* its list tables
    hash1,      \* _hamming_distance: its first argument
    hash2,      \* its second argument
    distance    \* the value it returned, or None

vars == <<pc, fn, file, ext, report, results, overall, fp,
          upload, tmp_exists, response, prev, nreq, qt_data, qt_i, qt_tables,
          hash1, hash2, distance>>

unitVars == <<fn, file, ext, report>>

aggVars == <<results, overall, fp>>

reqVars == <<upload, tmp_exists, response, prev, nreq>>

qtVars == <<qt_data, qt_i, qt_tables>>

\* _extract_quantization_tables is not running
QtIdle == qt_data = <<>> /\ qt_i = 0 /\ qt_tables = <<>>

hamVars == <<hash1, hash2, distance>>

\* Python's None, as a record so that it compares with the reports
None == [none |-> TRUE]

(***************************************************************************)
(* Python dicts, as sequences of items [key, val] with distinct keys.      *)
(***************************************************************************)
DictKeys(d) == {d[i].key : i \in DOMAIN d}

DictHas(d, k) == \E i \in DOMAIN d : d[i].key = k

\* the keys of weights, in the order of the dict literal
WeightKeys == <<"metadata", "ela", "noise", "hash", "compression">>

Analyzers == {WeightKeys[i] : i \in DOMAIN WeightKeys}

Min(a, b) == IF a < b THEN a ELSE b

Max(a, b) == IF a > b THEN a ELSE b

\* the value at the position the key has in weights, not the value under the key
DictGetPositional(d, k) ==
    d[Min(Len(d), CHOOSE i \in DOMAIN WeightKeys : WeightKeys[i] = k)].val

DictGet(d, k) == d[CHOOSE i \in DOMAIN d : d[i].key = k].val

DictPut(d, k, v) ==
    IF DictHas(d, k)
    THEN [i \in DOMAIN d |-> IF d[i].key = k THEN [key |-> k, val |-> v] ELSE d[i]]
    ELSE Append(d, [key |-> k, val |-> v])

(***************************************************************************)
(* calculate_suspicion_score                                               *)
(***************************************************************************)
W_metadata == 20
W_ela == 35
W_noise == 25
W_hash == 5
W_compression == 15

\* ela weighted 0.30: the weights no longer sum to 1
weights_low ==
    [k \in Analyzers |->
        CASE k = "metadata" -> W_metadata
          [] k = "ela" -> W_ela - 5
          [] k = "noise" -> W_noise
          [] k = "hash" -> W_hash
          [] k = "compression" -> W_compression]

\* weights, in hundredths
weights ==
    [k \in Analyzers |->
        CASE k = "metadata" -> W_metadata
          [] k = "ela" -> W_ela
          [] k = "noise" -> W_noise
          [] k = "hash" -> W_hash
          [] k = "compression" -> W_compression]

\* the places of one aggregation where a float is rounded to one decimal
FpSites == Analyzers \cup {"total"}

IsTie(x100) == x100 % 10 = 5

\* round(x, 1): x in hundredths, the result in tenths; up tells where a tie went
RoundTenth(x100, up) ==
    IF IsTie(x100)
    THEN (x100 \div 10) + (IF up THEN 1 ELSE 0)
    ELSE (x100 + 5) \div 10

\* a truthiness test of the score: a report scoring 0 is skipped
PresentTruthy(res, key) == DictHas(res, key) /\ DictGet(res, key).score # 0

\* the loop's condition: key in results and "score" in results[key]
Present(res, key) == DictHas(res, key) /\ "score" \in DOMAIN DictGet(res, key)

\* weighted = raw * weight, in hundredths
Weighted(res, key) == DictGet(res, key).score * weights[key]

\* total_score after the first k keys of weights, in hundredths
RECURSIVE TotalScore(_, _)
TotalScore(res, k) ==
    IF k = 0 THEN 0
    ELSE TotalScore(res, k - 1)
         + (IF Present(res, WeightKeys[k]) THEN Weighted(res, WeightKeys[k]) ELSE 0)

detail_scores(res, f) ==
    [key \in {k \in Analyzers : Present(res, k)} |->
        [raw_score |-> DictGet(res, key).score,
         weight |-> weights[key],
         weighted_score |-> RoundTenth(Weighted(res, key), f[key])]]

\* min(100, max(0, .)), in tenths
Clamp(s10) == Min(1000, Max(0, s10))

\* the total divided by the sum of the weights of the analyzers present
final_score_renormalized(res, f) ==
    LET S == {k \in Analyzers : Present(res, k)}
        RECURSIVE SumW(_)
        SumW(T) == IF T = {} THEN 0
                   ELSE LET k == CHOOSE k \in T : TRUE IN weights[k] + SumW(T \ {k})
    IN  IF S = {} THEN 0
        ELSE Clamp(RoundTenth((TotalScore(res, Len(WeightKeys)) * 100) \div SumW(S), f["total"]))

final_score(res, f) == Clamp(RoundTenth(TotalScore(res, Len(WeightKeys)), f["total"]))

VerdictStrict(s10) ==
    IF s10 > 600 THEN "FAKE"
    ELSE IF s10 > 350 THEN "SUSPICIOUS"
    ELSE IF s10 > 150 THEN "UNCERTAIN"
    ELSE "AUTHENTIC"

Verdict(s10) ==
    IF s10 >= 600 THEN "FAKE"
    ELSE IF s10 >= 350 THEN "SUSPICIOUS"
    ELSE IF s10 >= 150 THEN "UNCERTAIN"
    ELSE "AUTHENTIC"

Confidence(s10) ==
    IF s10 >= 600 THEN "High"
    ELSE IF s10 >= 350 THEN "Medium"
    ELSE IF s10 >= 150 THEN "Low"
    ELSE "High"

Message(s10) ==
    IF s10 >= 600 THEN "strong signs of manipulation or forgery"
    ELSE IF s10 >= 350 THEN "notable anomalies"
    ELSE IF s10 >= 150 THEN "minor anomalies"
    ELSE "appears to be genuine"

calculate_suspicion_score(res, f) ==
    LET s == final_score(res, f) IN
    [score |-> s,
     verdict |-> Verdict(s),
     confidence |-> Confidence(s),
     message |-> Message(s),
     breakdown |-> detail_scores(res, f)]

\* the roundings of an aggregation of res that meet a tie
TieSites(res) ==
    {k \in Analyzers : Present(res, k) /\ IsTie(Weighted(res, k))}
    \cup (IF IsTie(TotalScore(res, Len(WeightKeys))) THEN {"total"} ELSE {})

\* the ways the roundings of an aggregation of res can go
FpChoices(res) == {[s \in FpSites |-> s \in U] : U \in SUBSET TieSites(res)}

FpNone == [s \in FpSites |-> FALSE]

(***************************************************************************)
(* Reports.  An analyzer appends a flag and adds an increment for each     *)
(* rule that triggers; a rule is modelled by the sequence of its firings   *)
(* [flag, inc], and an analyzer by the concatenation of its rules.         *)
(***************************************************************************)
EmptyDict == [x \in {} |-> x]

Fire(flag, inc) == <<[flag |-> flag, inc |-> inc]>>

When(cond, flag, inc) == IF cond THEN Fire(flag, inc) ELSE <<>>

RECURSIVE SumInc(_)
SumInc(fired) == IF fired = <<>> THEN 0 ELSE fired[1].inc + SumInc(Tail(fired))

FlagsOf(fired) == [i \in DOMAIN fired |-> fired[i].flag]

\* the score returned without the cap of min(100, score)
FinalScoreUncapped(fired) == SumInc(fired)

\* "score": min(100, score)
FinalScore(fired) == Min(100, SumInc(fired))

\* if not flags: flags.append(fallback)
FinalFlags(fired, fallback) == IF fired = <<>> THEN <<fallback>> ELSE FlagsOf(fired)

\* the report returned when Image.open fails
NeutralReport == [score |-> 50, flags |-> <<"Could not open image">>, details |-> EmptyDict]

IsNeutral(r) == r.score = 50 /\ Len(r.flags) = 1 /\ DOMAIN r.details = {}

Abs(x) == IF x < 0 THEN -x ELSE x

(***************************************************************************)
(* analyze_metadata.  A string that is searched for the names of           *)
(* SUSPICIOUS_SOFTWARE is a record [text, hits], hits the set of names     *)
(* its lower-cased text contains.                                          *)
(***************************************************************************)
SUSPICIOUS_SOFTWARE ==
    <<"photoshop", "gimp", "paint.net", "affinity", "pixelmator",
      "lightroom", "capture one", "snapseed", "canva", "figma",
      "sketch", "illustrator", "inkscape", "corel", "acorn",
      "fake", "generator", "screenshot maker", "mockup", "browser frame",
      "chrome devtools", "inspect element", "web inspector",
      "midjourney", "dall-e", "stable diffusion", "ai",
      "screen capture pro", "greenshot edited">>

COMMON_RESOLUTIONS ==
    {<<1920, 1080>>, <<2560, 1440>>, <<3840, 2160>>,
     <<1366, 768>>, <<1440, 900>>, <<1536, 864>>,
     <<2880, 1800>>, <<3024, 1964>>, <<2560, 1600>>,
     <<1170, 2532>>, <<1284, 2778>>, <<1290, 2796>>,
     <<1080, 2340>>, <<1080, 2400>>, <<1440, 3200>>,
     <<2048, 2732>>, <<2360, 1640>>,
     <<750, 1334>>, <<828, 1792>>, <<1125, 2436>>,
     <<1080, 1920>>, <<1440, 2560>>}

SCREENSHOT_FORMATS == {"PNG", "JPEG", "WEBP", "BMP", "TIFF"}

\* for suspect in SUSPICIOUS_SOFTWARE: if suspect in value: ... break
MatchesDenylist(value) ==
    \E i \in DOMAIN SUSPICIOUS_SOFTWARE : SUSPICIOUS_SOFTWARE[i] \in value.hits

NoText == [text |-> "", hits |-> {}]

\* exif_data.get(key, "")
ExifGet(exif, key) == IF key \in DOMAIN exif THEN exif[key] ELSE NoText

\* "gps" in k.lower()
IsGpsKey(k) == k \in {"GPSInfo"}

\* k.lower() in ("model", "make", "lensmodel")
IsCameraKey(k) == k \in {"Model", "Make", "LensModel"}

ExifRules(f) ==
    LET exif == f.exif IN
    IF DOMAIN exif # {}
    THEN When(Cardinality(DOMAIN exif) > 10, "Unusually rich EXIF data", 20)
         \o When(\E k \in DOMAIN exif : IsGpsKey(k), "Contains GPS/location data", 25)
         \o When(\E k \in DOMAIN exif : IsCameraKey(k), "Contains camera hardware metadata", 30)
         \o When(MatchesDenylist(ExifGet(exif, "Software")),
                 "Created/edited with suspicious software", 35)
         \o When(/\ "DateTimeOriginal" \in DOMAIN exif
                 /\ "DateTime" \in DOMAIN exif
                 /\ exif["DateTimeOriginal"].text # exif["DateTime"].text,
                 "Original and modification timestamps differ", 20)
    ELSE When(f.format # "None" /\ f.format = "JPEG", "JPEG with no EXIF data", 10)

IsCommon(width, height) ==
    <<width, height>> \in COMMON_RESOLUTIONS \/ <<height, width>> \in COMMON_RESOLUTIONS

IsClose(width, height) ==
    \E r \in COMMON_RESOLUTIONS :
        \/ (Abs(width - r[1]) <= 50 /\ Abs(height - r[2]) <= 200)
        \/ (Abs(width - r[2]) <= 50 /\ Abs(height - r[1]) <= 200)

ResolutionRule(f) ==
    When(~IsCommon(f.size[1], f.size[2]) /\ ~IsClose(f.size[1], f.size[2]),
         "Non-standard resolution", 10)

\* bytes_per_pixel = file_size / max(pixel_count, 1) < 0.1
SmallFileRule(f) ==
    When(/\ f.format # "None"
         /\ f.format = "PNG"
         /\ f.file_size * 10 < Max(f.size[1] * f.size[2], 1),
         "Extremely low file size for PNG", 15)

ModeRule(f) ==
    IF f.mode = "P" THEN Fire("Palette/indexed color mode", 10)
    ELSE IF f.mode = "L" THEN Fire("Grayscale image", 5)
    ELSE <<>>

\* dpi is <<>> when img.info has no "dpi"
DpiRule(f) ==
    When(f.dpi # <<>> /\ f.dpi[1] # f.dpi[2], "Asymmetric DPI", 15)

\* the text chunks are visited in turn: break leaves only the loop over the names
RECURSIVE TextChunkFirings(_)
TextChunkFirings(chunks) ==
    IF chunks = <<>> THEN <<>>
    ELSE When(MatchesDenylist(chunks[1].val),
              "PNG text chunk references suspicious software", 25)
         \o TextChunkFirings(Tail(chunks))

TextChunkRule(f) ==
    IF f.format # "None" /\ f.format = "PNG" THEN TextChunkFirings(f.text) ELSE <<>>

MetadataFired(f) ==
    When(f.format # "None" /\ f.format \notin SCREENSHOT_FORMATS,
         "Unusual format for a screenshot", 15)
    \o ExifRules(f)
    \o ResolutionRule(f)
    \o SmallFileRule(f)
    \o ModeRule(f)
    \o DpiRule(f)
    \o TextChunkRule(f)

MetadataDetails(f) ==
    [format |-> f.format, mode |-> f.mode, size |-> f.size,
     file_size_bytes |-> f.file_size, exif |-> f.exif,
     dpi |-> f.dpi, png_text_chunks |-> IF f.format = "PNG" THEN f.text ELSE <<>>]

analyze_metadata(f) ==
    IF ~f.opens THEN NeutralReport
    ELSE [score |-> FinalScore(MetadataFired(f)),
          flags |-> FinalFlags(MetadataFired(f), "No metadata anomalies detected"),
          details |-> MetadataDetails(f)]

(***************************************************************************)
(* Statistics of a sequence of numbers, without square roots: with n the   *)
(* length, S1 the sum and S2 the sum of squares, VarN2 = n*S2 - S1*S1 is   *)
(* n*n times the variance, so that std > c iff VarN2 > c*c*n*n.            *)
(***************************************************************************)
RECURSIVE SeqSum(_)
SeqSum(xs) == IF xs = <<>> THEN 0 ELSE xs[1] + SeqSum(Tail(xs))

RECURSIVE SeqSumSq(_)
SeqSumSq(xs) == IF xs = <<>> THEN 0 ELSE xs[1] * xs[1] + SeqSumSq(Tail(xs))

VarN2(xs) == Len(xs) * SeqSumSq(xs) - SeqSum(xs) * SeqSum(xs)

\* x - mean, times n
DevN(xs, x) == Len(xs) * x - SeqSum(xs)

(***************************************************************************)
(* analyze_ela.  f.ela holds what the re-save at quality 90 measured:      *)
(* mean_diff and std_diff in hundredths, max_pixel_diff, and the           *)
(* difference map diff_array by the means of its aligned 8x8 cells: base   *)
(* everywhere but hot at the cell in row hot_row and column hot_col        *)
(* (counted from 1).  f.size is (width, height).                           *)
(***************************************************************************)
ELA_QUALITY == 90
BLOCK_SIZE == 8

\* list(range(start, stop, step)), step > 0
Range(start, stop, step) ==
    [k \in 1..(IF stop > start THEN (stop - start + step - 1) \div step ELSE 0)
        |-> start + (k - 1) * step]

\* np.mean(diff_array[y:y + BLOCK_SIZE, x:x + BLOCK_SIZE]) of a block inside the image
BlockMean(f, y, x) ==
    IF (y \div BLOCK_SIZE) + 1 = f.ela.hot_row /\ (x \div BLOCK_SIZE) + 1 = f.ela.hot_col
    THEN f.ela.hot
    ELSE f.ela.base

\* the two loops over y and x
block_means(f) ==
    LET ys == Range(0, f.size[2] - BLOCK_SIZE, BLOCK_SIZE)
        xs == Range(0, f.size[1] - BLOCK_SIZE, BLOCK_SIZE)
    IN  [k \in 1..(Len(ys) * Len(xs)) |->
            BlockMean(f, ys[((k - 1) \div Len(xs)) + 1], xs[((k - 1) % Len(xs)) + 1])]

\* block_std > c
BlockStdAbove(bm, c) == VarN2(bm) > c * c * Len(bm) * Len(bm)

\* block_means[i] > threshold, threshold = block_mean + 3 * block_std if
\* block_std > 0 else block_mean + 10
IsOutlierBlock(bm, i) ==
    IF VarN2(bm) > 0
    THEN DevN(bm, bm[i]) > 0 /\ DevN(bm, bm[i]) * DevN(bm, bm[i]) > 9 * VarN2(bm)
    ELSE DevN(bm, bm[i]) > 10 * Len(bm)

outlier_count(bm) == Cardinality({i \in DOMAIN bm : IsOutlierBlock(bm, i)})

BlockRules(bm) ==
    IF Len(bm) > 0
    THEN (IF BlockStdAbove(bm, 12) THEN Fire("Very high block-level variance", 45)
          ELSE IF BlockStdAbove(bm, 7) THEN Fire("Elevated block-level variance", 25)
          ELSE IF BlockStdAbove(bm, 4) THEN Fire("Slightly elevated block variance", 10)
          ELSE <<>>)
         \o (IF 100 * outlier_count(bm) > 5 * Len(bm)
             THEN Fire("Significant number of outlier blocks", 30)
             ELSE IF 100 * outlier_count(bm) > 2 * Len(bm)
             THEN Fire("Some outlier blocks detected", 15)
             ELSE <<>>)
    ELSE <<>>

\* file_ext = image_path.lower().rsplit(".", 1)[-1]
LosslessRule(f, file_ext) ==
    When(file_ext = "png" /\ f.ela.mean_diff > 500, "PNG image shows elevated ELA levels", 20)

EdgeRule(f) ==
    When(f.ela.max_pixel_diff > 200 /\ f.ela.std_diff > 1500,
         "Extreme pixel differences detected", 20)

ElaFired(f, file_ext) == BlockRules(block_means(f)) \o LosslessRule(f, file_ext) \o EdgeRule(f)

\* block_std is kept by block_var_n2, its square times the square of the
\* number of blocks, and outlier_ratio by outlier_blocks and blocks; the keys
\* of the block statistics exist only if len(block_means) > 0
ElaDetails(f) ==
    IF Len(block_means(f)) > 0
    THEN [mean_error_level |-> f.ela.mean_diff,
          std_error_level |-> f.ela.std_diff,
          max_error_level |-> f.ela.max_pixel_diff,
          blocks |-> Len(block_means(f)),
          block_sum |-> SeqSum(block_means(f)),
          block_var_n2 |-> VarN2(block_means(f)),
          outlier_blocks |-> outlier_count(block_means(f))]
    ELSE [mean_error_level |-> f.ela.mean_diff,
          std_error_level |-> f.ela.std_diff,
          max_error_level |-> f.ela.max_pixel_diff]

analyze_ela(f, file_ext) ==
    IF ~f.opens \/ ~f.loads
    THEN [score |-> 50, flags |-> <<"Could not open image">>,
          ela_image |-> "None", details |-> EmptyDict]
    ELSE [score |-> FinalScore(ElaFired(f, file_ext)),
          flags |-> FinalFlags(ElaFired(f, file_ext), "ELA shows consistent error levels"),
          ela_image |-> "data:image/png;base64",
          details |-> ElaDetails(f)]

(***************************************************************************)
(* analyze_noise.  f.noise holds global_noise and regional, the noise      *)
(* estimates of the 64 cells of the grid, all in tenths.                   *)
(***************************************************************************)
GRID_DIVISIONS == 8

\* cv > c, where cv = noise_std / noise_mean * 100 if noise_mean > 0 else 0,
\* for c = 100 * num / den
CvAbove(rn, num, den) ==
    /\ SeqSum(rn) > 0
    /\ VarN2(rn) > (num * num * SeqSum(rn) * SeqSum(rn)) \div (den * den)

\* cv < 3
CvBelow3(rn) ==
    IF SeqSum(rn) > 0
    THEN VarN2(rn) <= (9 * SeqSum(rn) * SeqSum(rn) - 1) \div 10000
    ELSE TRUE

\* |z| > num / 2
ZAbove(rn, i, num) ==
    4 * DevN(rn, rn[i]) * DevN(rn, rn[i]) > num * num * VarN2(rn)

noise_outlier_count(rn) ==
    IF VarN2(rn) > 0 THEN Cardinality({i \in DOMAIN rn : ZAbove(rn, i, 5)}) ELSE 0

extreme_outlier_count(rn) ==
    IF VarN2(rn) > 0 THEN Cardinality({i \in DOMAIN rn : ZAbove(rn, i, 7)}) ELSE 0

NoiseFired(f) ==
    LET rn == f.noise.regional
        g == f.noise.global_noise
    IN  (IF CvAbove(rn, 3, 5) THEN Fire("Extreme noise inconsistency", 50)
         ELSE IF CvAbove(rn, 2, 5) THEN Fire("High noise inconsistency", 35)
         ELSE IF CvAbove(rn, 1, 4) THEN Fire("Moderate noise inconsistency", 20)
         ELSE IF CvAbove(rn, 3, 20) THEN Fire("Slight noise variation", 8)
         ELSE <<>>)
        \o (IF extreme_outlier_count(rn) >= 3
            THEN Fire("regions have extreme noise differences", 25)
            ELSE IF noise_outlier_count(rn) >= 4
            THEN Fire("regions show abnormal noise levels", 15)
            ELSE <<>>)
        \o When(SeqSum(rn) > 0 /\ CvBelow3(rn) /\ g > 50, "Suspiciously uniform noise", 20)
        \o When(g < 15 /\ SeqSum(rn) < 20 * Len(rn), "Extremely low noise", 15)

NoiseDetails(f) ==
    [global_noise |-> f.noise.global_noise,
     regional_sum |-> SeqSum(f.noise.regional),
     regional_var_n2 |-> VarN2(f.noise.regional),
     outlier_regions |-> noise_outlier_count(f.noise.regional),
     extreme_outlier_regions |-> extreme_outlier_count(f.noise.regional)]

analyze_noise(f) ==
    IF ~f.opens \/ ~f.loads THEN NeutralReport
    ELSE [score |-> FinalScore(NoiseFired(f)),
          flags |-> FinalFlags(NoiseFired(f), "Noise analysis shows consistent patterns"),
          details |-> NoiseDetails(f)]

(***************************************************************************)
(* analyze_hash.  f.hash holds phash and dhash, each a sequence of hex     *)
(* digits 0..15.                                                           *)
(***************************************************************************)
PHASH_SIZE == 16

unique_chars(h) == Cardinality({h[i] : i \in DOMAIN h})

HashFired(f) ==
    When(unique_chars(f.hash.phash) <= 3, "Perceptual hash has very low complexity", 20)
    \o When(unique_chars(f.hash.dhash) <= 3, "Difference hash has very low complexity", 15)

HashDetails(f) ==
    [phash |-> f.hash.phash, dhash |-> f.hash.dhash,
     hash_bits |-> PHASH_SIZE * PHASH_SIZE,
     phash_unique_chars |-> unique_chars(f.hash.phash),
     dhash_unique_chars |-> unique_chars(f.hash.dhash)]

analyze_hash(f) ==
    IF ~f.opens \/ ~f.loads THEN NeutralReport
    ELSE [score |-> FinalScore(HashFired(f)),
          flags |-> FinalFlags(HashFired(f), "Hash analysis nominal"),
          details |-> HashDetails(f)]

(***************************************************************************)
(* _hamming_distance.  A hex string is the sequence of the values of its   *)
(* digits.                                                                 *)
(***************************************************************************)
\* _hamming_distance is not running
HamIdle == hash1 = <<>> /\ hash2 = <<>> /\ distance = None

\* int(h, 16)
RECURSIVE HexToInt(_)
HexToInt(h) == IF h = <<>> THEN 0 ELSE HexToInt(SubSeq(h, 1, Len(h) - 1)) * 16 + h[Len(h)]

\* bin(n)[2:]: the binary digits of n, without leading zeros
RECURSIVE Bin(_)
Bin(n) == IF n < 2 THEN <<n>> ELSE Append(Bin(n \div 2), n % 2)

ZFillNone(str, width) == str

\* str.zfill(width)
ZFill(str, width) ==
    IF Len(str) >= width THEN str
    ELSE [k \in 1..(width - Len(str)) |-> 0] \o str

\* sum(c1 != c2 for c1, c2 in zip(bin1, bin2))
ZipDiffs(bin1, bin2) ==
    Cardinality({k \in 1..Min(Len(bin1), Len(bin2)) : bin1[k] # bin2[k]})

hamming_distance(h1, h2) ==
    IF Len(h1) # Len(h2) THEN -1
    ELSE ZipDiffs(ZFill(Bin(HexToInt(h1)), Len(h1) * 4),
                  ZFill(Bin(HexToInt(h2)), Len(h2) * 4))

(***************************************************************************)
(* _extract_quantization_tables.  data is the sequence of the bytes of the *)
(* file; indexes are Python's (from 0).                                    *)
(***************************************************************************)
At(data, i) == data[i + 1]

\* data[a:b]
Slice(data, a, b) == SubSeq(data, a + 1, Min(b, Len(data)))

\* list(table_data[j:j + size])[:64]
TableValues(table_data, j, precision) ==
    Slice(Slice(table_data, j, j + 64 * (IF precision # 0 THEN 2 ELSE 1)), 0, 64)

\* the loop over the tables of one segment, from offset j
RECURSIVE ParseTables(_, _, _)
ParseTables(table_data, j, tables) ==
    IF j >= Len(table_data) THEN tables
    ELSE LET precision_id == At(table_data, j)
             precision == (precision_id \div 16) % 16
             table_id == precision_id % 16
             size == 64 * (IF precision # 0 THEN 2 ELSE 1)
         IN  ParseTables(table_data, j + 1 + size,
                 IF j + 1 + size <= Len(table_data)
                 THEN Append(tables, [id |-> table_id, precision |-> precision,
                                      values |-> TableValues(table_data, j + 1, precision)])
                 ELSE tables)

IsDqtMarker(data, i) == At(data, i) = 255 /\ At(data, i + 1) = 219

ScanStepFromLength(data, i, tables) ==
    IF IsDqtMarker(data, i)
    THEN IF i + 2 + 2 > Len(data)
         THEN [i |-> i + 2, tables |-> tables, more |-> FALSE]
         ELSE LET length == At(data, i + 2) * 256 + At(data, i + 3)
              IN  [i |-> i + length, tables |-> tables, more |-> TRUE]
    ELSE [i |-> i + 1, tables |-> tables, more |-> TRUE]

\* one iteration of the loop over the file: the new i, the new tables and
\* whether the loop goes on
ScanStep(data, i, tables) ==
    IF IsDqtMarker(data, i)
    THEN IF i + 2 + 2 > Len(data)
         THEN [i |-> i + 2, tables |-> tables, more |-> FALSE]
         ELSE LET length == At(data, i + 2) * 256 + At(data, i + 3)
                  table_data == Slice(data, i + 4, i + 2 + length)
              IN  [i |-> i + 2 + length,
                   tables |-> ParseTables(table_data, 0, tables),
                   more |-> TRUE]
    ELSE [i |-> i + 1, tables |-> tables, more |-> TRUE]

\* while i < len(data) - 1
ScanGoesOn(data, i) == i < Len(data) - 1

RECURSIVE ScanFrom(_, _, _)
ScanFrom(data, i, tables) ==
    IF ~ScanGoesOn(data, i) THEN tables
    ELSE LET st == ScanStep(data, i, tables)
         IN  IF st.more THEN ScanFrom(data, st.i, st.tables) ELSE st.tables

extract_quantization_tables(data) == ScanFrom(data, 0, <<>>)

(***************************************************************************)
(* analyze_compression.  f.comp holds what the pixel passes measured:      *)
(* dc_ratio and png_ratio, the boundary/interior ratios in thousandths     *)
(* (-1: no ratio was computed), and sizes, the byte sizes of the re-saves  *)
(* at qualities 50, 55, ..., 95.  f.data are the bytes of the file.        *)
(***************************************************************************)
SeqMax(xs) == CHOOSE m \in {xs[i] : i \in DOMAIN xs} : \A i \in DOMAIN xs : xs[i] <= m

\* the result of _detect_double_compression
detect_double_compression(f) ==
    IF ~f.loads
    THEN [detected |-> FALSE, confidence |-> 0, details |-> "Analysis error"]
    ELSE LET r == f.comp.dc_ratio IN
         IF r > 1300
         THEN [detected |-> TRUE, confidence |-> Min(100, (r - 1000) \div 10),
               details |-> "Block boundary artifacts detected"]
         ELSE IF r > 1150
         THEN [detected |-> FALSE, confidence |-> ((r - 1000) * 60) \div 1000,
               details |-> "Mild block boundary artifacts"]
         ELSE [detected |-> FALSE, confidence |-> 0, details |-> ""]

is_jpeg(f) == f.format # "None" /\ f.format \in {"JPEG", "JPG"}

RECURSIVE QtableFirings(_)
QtableFirings(qtables) ==
    IF qtables = <<>> THEN <<>>
    ELSE When(Len(qtables[1].values) >= 64 /\ SeqMax(qtables[1].values) > 100,
              "High quantization values in table", 10)
         \o QtableFirings(Tail(qtables))

DoubleCompressionRule(dc) ==
    IF dc.detected THEN Fire(dc.details, 35)
    ELSE IF dc.confidence > 30 THEN Fire(dc.details, 15)
    ELSE <<>>

PngArtifactRule(f) ==
    When(/\ f.format # "None" /\ f.format = "PNG"
         /\ f.size[2] > 16 /\ f.size[1] > 16
         /\ f.comp.png_ratio > 1250,
         "PNG contains JPEG-like block artifacts", 30)

\* min(quality_estimates, key=...): the first quality whose size is closest
closest_q(sizes, original_size) ==
    LET dist(i) == Abs(sizes[i] - original_size)
        best == CHOOSE i \in DOMAIN sizes :
                    /\ \A k \in DOMAIN sizes : dist(i) <= dist(k)
                    /\ \A k \in DOMAIN sizes : k < i => dist(k) > dist(i)
    IN  50 + 5 * (best - 1)

QualityRule(f) ==
    When(closest_q(f.comp.sizes, f.file_size) < 70, "Low estimated JPEG quality", 15)

CompressionFired(f) ==
    (IF is_jpeg(f)
     THEN QtableFirings(extract_quantization_tables(f.data))
          \o DoubleCompressionRule(detect_double_compression(f))
     ELSE <<>>)
    \o PngArtifactRule(f)
    \o (IF is_jpeg(f) THEN QualityRule(f) ELSE <<>>)

CompressionDetails(f) ==
    [format |-> f.format,
     quantization_tables_found |->
         IF is_jpeg(f) THEN Len(extract_quantization_tables(f.data)) ELSE 0,
     double_compression |-> IF is_jpeg(f) THEN detect_double_compression(f) ELSE None,
     estimated_quality |-> IF is_jpeg(f) THEN closest_q(f.comp.sizes, f.file_size) ELSE 0]

\* the exception that leaves an analyzer
Raised == [raised |-> "OSError"]

\* img.convert("RGB") outside any try: it decodes the pixels
ConvertRaises(f) == ~f.loads /\ (is_jpeg(f) \/ f.format = "PNG")

analyze_compression(f) ==
    IF ~f.opens THEN NeutralReport
    ELSE IF ConvertRaises(f) THEN Raised
    ELSE [score |-> FinalScore(CompressionFired(f)),
          flags |-> FinalFlags(CompressionFired(f), "No compression anomalies detected"),
          details |-> CompressionDetails(f)]

(***************************************************************************)
(* Sample inputs.  Every value is one a file can yield; the sets are       *)
(* chosen so that every rule of every analyzer triggers on some input and  *)
(* stays silent on another.                                                *)
(***************************************************************************)
CleanText == [text |-> "macOS 14.2", hits |-> {}]
PhotoshopText == [text |-> "Adobe Photoshop 25.0", hits |-> {"photoshop"}]
GimpFakeText == [text |-> "GIMP fake generator", hits |-> {"gimp", "fake", "generator"}]

SoftwareTexts == {CleanText, PhotoshopText, GimpFakeText}

ExifCoreKeys == {"Software", "DateTime", "DateTimeOriginal", "GPSInfo", "Model"}

ExifFillerKeys ==
    {"Orientation", "XResolution", "YResolution", "ResolutionUnit", "YCbCrPositioning",
     "ExifOffset", "ColorSpace", "ExifImageWidth", "ExifImageHeight"}

MakeExif(K, software, modified) ==
    [k \in K |->
        CASE k = "Software" -> software
          [] k = "DateTime" -> [text |-> modified, hits |-> {}]
          [] k = "DateTimeOriginal" -> [text |-> "2024:01:01 10:00:00", hits |-> {}]
          [] OTHER -> [text |-> "1", hits |-> {}]]

ExifSamples ==
    {MakeExif(K \cup F, sw, dt) :
        K \in SUBSET ExifCoreKeys, F \in {{}, ExifFillerKeys}, sw \in SoftwareTexts,
        dt \in {"2024:01:01 10:00:00", "2024:02:02 12:00:00"}}

TextChunkSamples ==
    {<<>>,
     <<[key |-> "Comment", val |-> CleanText]>>,
     <<[key |-> "Software", val |-> PhotoshopText]>>,
     <<[key |-> "Software", val |-> PhotoshopText], [key |-> "Comment", val |-> GimpFakeText]>>}

MetaInputs ==
    {[opens |-> TRUE, format |-> fmt, mode |-> m, size |-> sz, file_size |-> fs,
      exif |-> ex, dpi |-> d, text |-> tx] :
        fmt \in {"PNG", "JPEG", "GIF"}, m \in {"RGB", "P", "L"},
        sz \in {<<1920, 1080>>, <<1100, 2200>>, <<500, 500>>},
        fs \in {20000, 900000}, ex \in ExifSamples,
        d \in {<<>>, <<72, 72>>, <<72, 96>>},
        tx \in TextChunkSamples}

\* (width, height) of the sample images: below, at and between multiples of 8
ElaSizes == {<<5, 20>>, <<8, 8>>, <<16, 16>>, <<20, 20>>, <<24, 17>>, <<40, 40>>, <<41, 41>>, <<48, 48>>}

\* the difference maps of an image of size sz: uniform, or one cell (the
\* first, or the last that lies fully inside the image) apart from the others
DiffMaps(sz) ==
    {[base |-> b, hot |-> b, hot_row |-> 1, hot_col |-> 1] : b \in {0, 5}}
    \cup {[base |-> 0, hot |-> x, hot_row |-> rc[1], hot_col |-> rc[2]] :
             x \in {10, 18, 30, 60},
             rc \in {<<1, 1>>, <<Max(1, sz[2] \div BLOCK_SIZE), Max(1, sz[1] \div BLOCK_SIZE)>>}}

ElaInputs ==
    {[opens |-> TRUE, loads |-> l, format |-> fmt, size |-> sz,
      ela |-> [mean_diff |-> md, std_diff |-> sd, max_pixel_diff |-> mx,
               base |-> dm.base, hot |-> dm.hot, hot_row |-> dm.hot_row, hot_col |-> dm.hot_col]] :
        l \in BOOLEAN, fmt \in {"PNG", "JPEG"}, sz \in ElaSizes, md \in {100, 600}, sd \in {0, 2000},
        mx \in {50, 250}, dm \in UNION {DiffMaps(z) : z \in ElaSizes}}

\* the 64 cells: k of them at b, the others at a
Regional(a, b, k) ==
    [i \in 1..(GRID_DIVISIONS * GRID_DIVISIONS) |-> IF i <= k THEN b ELSE a]

NoiseInputs ==
    {[opens |-> TRUE, loads |-> l,
      noise |-> [global_noise |-> g, regional |-> Regional(a, b, k)]] :
        l \in BOOLEAN, g \in {10, 15, 50, 60}, a \in {0, 10, 30, 56},
        b \in {12, 40, 57, 60}, k \in {0, 1, 3, 8, 16}}

\* 64 hex digits using d distinct values
HexPattern(d) == [i \in 1..((PHASH_SIZE * PHASH_SIZE) \div 4) |-> i % d]

HashInputs ==
    {[opens |-> TRUE, loads |-> l, hash |-> [phash |-> HexPattern(p), dhash |-> HexPattern(d)]] :
        l \in BOOLEAN, p \in {1, 3, 4, 16}, d \in {1, 3, 4, 16}}

\* bytes of a file with quantization tables
Hi(x) == x \div 256
Lo(x) == x % 256

\* coefficient k of a sample table: base + step * k
Coefs(base, step) == [k \in 1..64 |-> base + step * (k - 1)]

RECURSIVE Bytes16(_)
Bytes16(cs) == IF cs = <<>> THEN <<>> ELSE <<Hi(cs[1]), Lo(cs[1])>> \o Bytes16(Tail(cs))

\* a table as it is stored: the precision/id byte, then the coefficients
TableBytes(t) ==
    <<t.precision * 16 + t.id>>
    \o (IF t.precision = 0 THEN t.values ELSE Bytes16(t.values))

RECURSIVE ConcatTables(_)
ConcatTables(ts) == IF ts = <<>> THEN <<>> ELSE TableBytes(ts[1]) \o ConcatTables(Tail(ts))

\* a DQT segment: FF DB, the length (itself included), the tables
Segment(ts) ==
    LET body == ConcatTables(ts) IN
    <<255, 219, Hi(Len(body) + 2), Lo(Len(body) + 2)>> \o body

RECURSIVE ConcatSegments(_)
ConcatSegments(segs) ==
    IF segs = <<>> THEN <<>> ELSE Segment(segs[1]) \o ConcatSegments(Tail(segs))

\* SOI, the segments, EOI
JpegStream(segs) == <<255, 216>> \o ConcatSegments(segs) \o <<255, 217>>

LowTable == [id |-> 0, precision |-> 0, values |-> Coefs(1, 1)]
HighTable == [id |-> 1, precision |-> 0, values |-> Coefs(40, 3)]

CompStreams ==
    {JpegStream(<<>>),
     JpegStream(<<<<LowTable>>>>),
     JpegStream(<<<<LowTable, HighTable>>>>),
     JpegStream(<<<<HighTable, HighTable, HighTable>>, <<HighTable, HighTable, HighTable>>>>)}

\* sizes of the re-saves at qualities 50, 55, ..., 95
ResaveSizes == [i \in 1..10 |-> 10000 * i]

CompInputs ==
    {[opens |-> TRUE, loads |-> l, format |-> fmt, size |-> sz, file_size |-> fs, data |-> d,
      comp |-> [dc_ratio |-> dc, png_ratio |-> pr, sizes |-> ResaveSizes]] :
        l \in BOOLEAN, fmt \in {"PNG", "JPEG", "GIF"}, sz \in {<<1920, 1080>>, <<16, 16>>},
        fs \in {20000, 44000, 50000, 900000}, d \in CompStreams,
        dc \in {-1, 1000, 1150, 1200, 1300, 1301, 2500},
        pr \in {-1, 1000, 1250, 1251}}

\* a file Image.open rejects
Unopenable == [opens |-> FALSE]

UnitInputs(a) ==
    {Unopenable} \cup
    (CASE a = "metadata" -> MetaInputs
       [] a = "ela" -> ElaInputs
       [] a = "noise" -> NoiseInputs
       [] a = "hash" -> HashInputs
       [] a = "compression" -> CompInputs)

(***************************************************************************)
(* SpecUnit: one call of one analyzer on one input.                        *)
(***************************************************************************)
InitUnit ==
    /\ pc = "call"
    /\ fn \in Analyzers
    /\ file \in UnitInputs(fn)
    /\ ext \in (IF fn = "ela" THEN {"png", "jpg"} ELSE {"png"})
    /\ report = None
    /\ results = <<>> /\ overall = None /\ fp = FpNone
    /\ upload = None /\ tmp_exists = FALSE /\ response = None /\ prev = None /\ nreq = 0
    /\ QtIdle
    /\ HamIdle

CallMetadata ==
    /\ pc = "call" /\ fn = "metadata"
    /\ report' = analyze_metadata(file)
    /\ pc' = "returned"
    /\ UNCHANGED <<fn, file, ext>> /\ UNCHANGED aggVars /\ UNCHANGED reqVars /\ UNCHANGED qtVars /\ UNCHANGED hamVars

CallEla ==
    /\ pc = "call" /\ fn = "ela"
    /\ report' = analyze_ela(file, ext)
    /\ pc' = "returned"
    /\ UNCHANGED <<fn, file, ext>> /\ UNCHANGED aggVars /\ UNCHANGED reqVars /\ UNCHANGED qtVars /\ UNCHANGED hamVars

CallNoise ==
    /\ pc = "call" /\ fn = "noise"
    /\ report' = analyze_noise(file)
    /\ pc' = "returned"
    /\ UNCHANGED <<fn, file, ext>> /\ UNCHANGED aggVars /\ UNCHANGED reqVars /\ UNCHANGED qtVars /\ UNCHANGED hamVars

CallHash ==
    /\ pc = "call" /\ fn = "hash"
    /\ report' = analyze_hash(file)
    /\ pc' = "returned"
    /\ UNCHANGED <<fn, file, ext>> /\ UNCHANGED aggVars /\ UNCHANGED reqVars /\ UNCHANGED qtVars /\ UNCHANGED hamVars

CallCompression ==
    /\ pc = "call" /\ fn = "compression"
    /\ report' = analyze_compression(file)
    /\ pc' = "returned"
    /\ UNCHANGED <<fn, file, ext>> /\ UNCHANGED aggVars /\ UNCHANGED reqVars /\ UNCHANGED qtVars /\ UNCHANGED hamVars

NextUnit == CallMetadata \/ CallEla \/ CallNoise \/ CallHash \/ CallCompression

SpecUnit == InitUnit /\ [][NextUnit]_vars

(***************************************************************************)
(* The request handler analyze of app.py, and run_all_analyzers.           *)
(***************************************************************************)
MAX_FILE_SIZE == 20971520

ALLOWED_EXTENSIONS == {"png", "jpg", "jpeg", "gif", "bmp", "webp", "tiff", "tif"}

\* str.lower(), on the extensions of the sample names
Lower(e) == IF e = "PNG" THEN "png" ELSE e

\* a file name is [dot, ext]: whether it holds a ".", and what follows the last one
allowed_file(filename) == filename.dot /\ Lower(filename.ext) \in ALLOWED_EXTENSIONS

HashOf(d) == [phash |-> HexPattern(d), dhash |-> HexPattern(d)]

\* what is read and measured from a sample file
FullFile(opens, loads, fmt, fs, md) ==
    [opens |-> opens, loads |-> loads, format |-> fmt, mode |-> "RGB",
     size |-> <<24, 24>>, file_size |-> fs,
     exif |-> EmptyDict, dpi |-> <<>>, text |-> <<>>,
     data |-> IF fmt = "JPEG" THEN JpegStream(<<<<LowTable, HighTable>>>>) ELSE <<>>,
     ela |-> [mean_diff |-> md, std_diff |-> 500, max_pixel_diff |-> 50,
              base |-> 0, hot |-> 10, hot_row |-> 1, hot_col |-> 1],
     noise |-> [global_noise |-> 30, regional |-> Regional(30, 40, 1)],
     hash |-> HashOf(16),
     comp |-> [dc_ratio |-> 1000, png_ratio |-> 1000, sizes |-> ResaveSizes]]

\* a zero-byte file: nothing opens it
ZeroByteFile == FullFile(FALSE, FALSE, "None", 0, 0)

SampleFiles ==
    {ZeroByteFile}
    \cup {FullFile(TRUE, l, fmt, fs, md) :
            l \in BOOLEAN, fmt \in {"PNG", "JPEG", "GIF"},
            fs \in {900000}, md \in {100, 600}}
    \cup {FullFile(TRUE, TRUE, "PNG", 25000000, 100)}

SampleNames ==
    {[dot |-> TRUE, ext |-> e] : e \in {"png", "PNG", "jpg", "gif", "exe"}}
    \cup {[dot |-> FALSE, ext |-> ""]}

MaxRequests == 2

PipeIdle ==
    /\ fn = "none" /\ report = None
    /\ file = None /\ ext = ""
    /\ results = <<>> /\ overall = None /\ fp = FpNone
    /\ upload = None /\ tmp_exists = FALSE /\ response = None

Init ==
    /\ pc = "idle"
    /\ PipeIdle
    /\ prev = None
    /\ nreq = 0
    /\ QtIdle
    /\ HamIdle

\* jsonify({"error": msg}), 400
Reject(msg) == [code |-> 400, body |-> [error |-> msg]]

\* a request arrives; it is answered at once when it carries no file, an empty
\* file name or a name that is not allowed
Receive ==
    /\ pc = "idle"
    /\ nreq < MaxRequests
    /\ nreq' = nreq + 1
    /\ fn' = "none" /\ report' = None /\ file' = None /\ ext' = ""
    /\ results' = <<>> /\ overall' = None /\ fp' = FpNone
    /\ tmp_exists' = FALSE
    /\ UNCHANGED prev /\ UNCHANGED qtVars /\ UNCHANGED hamVars
    /\ \/ /\ upload' = [has_file |-> FALSE]
          /\ response' = Reject("No file uploaded")
          /\ pc' = "done"
       \/ /\ upload' = [has_file |-> TRUE, empty_name |-> TRUE]
          /\ response' = Reject("Empty filename")
          /\ pc' = "done"
       \/ \E name \in SampleNames :
          /\ upload' = [has_file |-> TRUE, empty_name |-> FALSE, filename |-> name]
          /\ IF allowed_file(name)
             THEN response' = None /\ pc' = "save"
             ELSE response' = Reject("File type not allowed") /\ pc' = "done"

\* file.save(temp_path): the temporary path takes the lower-cased extension
Save ==
    /\ pc = "save"
    /\ \E f \in SampleFiles : file' = f
    /\ ext' = Lower(upload.filename.ext)
    /\ tmp_exists' = TRUE
    /\ pc' = "size"
    /\ UNCHANGED <<fn, report, results, overall, fp, upload, response, prev, nreq>> /\ UNCHANGED qtVars /\ UNCHANGED hamVars

\* os.path.getsize(temp_path) > MAX_FILE_SIZE
CheckSize ==
    /\ pc = "size"
    /\ IF file.file_size > MAX_FILE_SIZE
       THEN /\ tmp_exists' = FALSE
            /\ response' = Reject("File too large")
            /\ pc' = "finally"
       ELSE /\ pc' = "metadata"
            /\ UNCHANGED <<tmp_exists, response>>
    /\ UNCHANGED <<fn, report, file, ext, results, overall, fp, upload, prev, nreq>> /\ UNCHANGED qtVars /\ UNCHANGED hamVars

\* results[key] = analyzer(image_path); an exception leaves run_all_analyzers
RunStep(key, value, next) ==
    /\ pc = key
    /\ report' = value
    /\ IF value = Raised
       THEN /\ pc' = "except"
            /\ UNCHANGED results
       ELSE /\ pc' = next
            /\ results' = DictPut(results, key, value)
    /\ UNCHANGED <<fn, file, ext, overall, fp, upload, tmp_exists, response, prev, nreq>> /\ UNCHANGED qtVars /\ UNCHANGED hamVars

RunMetadata == RunStep("metadata", analyze_metadata(file), "ela")

RunEla == RunStep("ela", analyze_ela(file, ext), "noise")

RunNoise == RunStep("noise", analyze_noise(file), "hash")

RunHash == RunStep("hash", analyze_hash(file), "compression")

RunCompression == RunStep("compression", analyze_compression(file), "score")

\* overall = calculate_suspicion_score(analyzer_results), and the report.  The
\* same results round the same way as in the request before.
Score ==
    /\ pc = "score"
    /\ \E f \in FpChoices(results) :
          /\ (prev # None /\ prev.results = results) => f = prev.fp
          /\ fp' = f
          /\ overall' = calculate_suspicion_score(results, f)
          /\ response' = [code |-> 200,
                          body |-> [status |-> "success",
                                    filename |-> upload.filename,
                                    overall |-> calculate_suspicion_score(results, f),
                                    analyzers |-> results]]
    /\ pc' = "finally"
    /\ UNCHANGED <<fn, report, file, ext, results, upload, tmp_exists, prev, nreq>> /\ UNCHANGED qtVars /\ UNCHANGED hamVars

\* except Exception as e
Except ==
    /\ pc = "except"
    /\ response' = [code |-> 500, body |-> [error |-> "Analysis failed"]]
    /\ pc' = "finally"
    /\ UNCHANGED <<fn, report, file, ext, results, overall, fp, upload, tmp_exists, prev, nreq>> /\ UNCHANGED qtVars /\ UNCHANGED hamVars

FinallyKeepsFile ==
    /\ pc = "finally"
    /\ pc' = "done"
    /\ UNCHANGED <<fn, report, file, ext, results, overall, fp, upload, tmp_exists,
                   response, prev, nreq>>
    /\ UNCHANGED qtVars /\ UNCHANGED hamVars

\* finally: if os.path.exists(temp_path): os.remove(temp_path)
Finally ==
    /\ pc = "finally"
    /\ tmp_exists' = FALSE
    /\ pc' = "done"
    /\ UNCHANGED <<fn, report, file, ext, results, overall, fp, upload, response, prev, nreq>> /\ UNCHANGED qtVars /\ UNCHANGED hamVars

\* the response is sent; the handler is ready for the next request
Return ==
    /\ pc = "done"
    /\ pc' = "idle"
    /\ prev' = IF response.code = 200
               THEN [file |-> file, results |-> results, fp |-> fp, overall |-> overall]
               ELSE prev
    /\ UNCHANGED <<fn, report, file, ext, results, overall, fp, upload, tmp_exists, response, nreq>> /\ UNCHANGED qtVars /\ UNCHANGED hamVars

Next ==
    \/ Receive \/ Save \/ CheckSize
    \/ RunMetadata \/ RunEla \/ RunNoise \/ RunHash \/ RunCompression
    \/ Score \/ Except \/ Finally \/ Return

Spec == Init /\ [][Next]_vars

(***************************************************************************)
(* SpecAgg: calculate_suspicion_score on every mapping from a subset of    *)
(* the analyzers to a report, built in every insertion order.              *)
(***************************************************************************)
RawScores == {0, 15, 100}

InitAgg ==
    /\ pc = "collect"
    /\ results = <<>>
    /\ overall = None
    /\ fp = FpNone
    /\ fn = "none" /\ file = None /\ ext = "" /\ report = None
    /\ upload = None /\ tmp_exists = FALSE /\ response = None /\ prev = None /\ nreq = 0
    /\ QtIdle
    /\ HamIdle

\* results[key] = report, for a key not yet in results
PutReport ==
    /\ pc = "collect"
    /\ \E k \in Analyzers \ DictKeys(results) : \E s \in RawScores :
          results' = DictPut(results, k, [score |-> s])
    /\ UNCHANGED <<pc, overall, fp>>
    /\ UNCHANGED unitVars /\ UNCHANGED reqVars /\ UNCHANGED qtVars /\ UNCHANGED hamVars

Aggregate ==
    /\ pc = "collect"
    /\ \E f \in FpChoices(results) :
          /\ fp' = f
          /\ overall' = calculate_suspicion_score(results, f)
    /\ pc' = "done"
    /\ UNCHANGED results
    /\ UNCHANGED unitVars /\ UNCHANGED reqVars /\ UNCHANGED qtVars /\ UNCHANGED hamVars

NextAgg == PutReport \/ Aggregate

SpecAgg == InitAgg /\ [][NextAgg]_vars

(***************************************************************************)
(* SpecQT: _extract_quantization_tables, one iteration of its loop over    *)
(* the file at a time, on streams made of a JFIF header and of             *)
(* quantization-table segments with 8-bit and 16-bit tables.               *)
(***************************************************************************)
\* a 16-bit table whose coefficients fit one byte, and one whose do not
WideTable == [id |-> 2, precision |-> 1, values |-> Coefs(1, 1)]
WideHighTable == [id |-> 3, precision |-> 1, values |-> Coefs(250, 10)]

SampleTables == {LowTable, HighTable, WideTable, WideHighTable}

\* the APP0 segment of a JFIF file
App0 == <<255, 224, 0, 16, 74, 70, 73, 70, 0, 1, 1, 0, 0, 1, 0, 1, 0, 0>>

\* the segments of a sample stream: none, one table, two tables in one
\* segment, two segments of one table
QtSources ==
    {<<>>}
    \cup {<<<<t>>>> : t \in SampleTables}
    \cup {<<<<t, u>>>> : t \in SampleTables, u \in SampleTables}
    \cup {<<<<t>>, <<u>>>> : t \in SampleTables, u \in SampleTables}

QtStream(segs) == <<255, 216>> \o App0 \o ConcatSegments(segs) \o <<255, 217>>

MaxStreamLen == 4

\* every byte string of up to MaxStreamLen bytes out of those of a marker and
\* of a short length: a marker at the end, declared lengths 0 and 1, lengths
\* that run past the end
ShortStreams == UNION {[1..n -> {0, 1, 219, 255}] : n \in 0..MaxStreamLen}

\* segments cut short: a table with too few coefficients, a 16-bit table in a
\* segment as long as an 8-bit one, a declared length beyond the end of the
\* data, and a whole table followed by the start of another
TruncatedStreams ==
    {<<255, 219, 0, 67, 0>> \o SubSeq(LowTable.values, 1, 10),
     <<255, 219, 0, 67, 16>> \o LowTable.values,
     <<255, 219, 1, 0, 0>> \o LowTable.values,
     <<255, 216>> \o Segment(<<LowTable>>) \o <<255, 219, 0, 40, 1, 7, 7>>,
     <<255, 219, 0, 72>> \o TableBytes(LowTable) \o <<1, 0, 1, 0, 2>>,
     SubSeq(Segment(<<WideTable>>), 1, 100)}

InitQT ==
    /\ pc = "scan"
    /\ qt_data \in {QtStream(segs) : segs \in QtSources} \cup ShortStreams \cup TruncatedStreams
    /\ qt_i = 0
    /\ qt_tables = <<>>
    /\ HamIdle
    /\ PipeIdle
    /\ prev = None
    /\ nreq = 0

\* an iteration at a byte pair that is not FF DB: i += 1
ScanByte ==
    /\ pc = "scan"
    /\ ScanGoesOn(qt_data, qt_i)
    /\ ~IsDqtMarker(qt_data, qt_i)
    /\ qt_i' = ScanStep(qt_data, qt_i, qt_tables).i
    /\ qt_tables' = ScanStep(qt_data, qt_i, qt_tables).tables
    /\ UNCHANGED <<pc, qt_data>>
    /\ UNCHANGED unitVars /\ UNCHANGED aggVars /\ UNCHANGED reqVars /\ UNCHANGED hamVars

\* an iteration at FF DB: the tables of the segment, or the break
ScanSegment ==
    /\ pc = "scan"
    /\ ScanGoesOn(qt_data, qt_i)
    /\ IsDqtMarker(qt_data, qt_i)
    /\ LET st == ScanStep(qt_data, qt_i, qt_tables) IN
          /\ qt_i' = st.i
          /\ qt_tables' = st.tables
          /\ pc' = IF st.more THEN "scan" ELSE "qt_returned"
    /\ UNCHANGED qt_data
    /\ UNCHANGED unitVars /\ UNCHANGED aggVars /\ UNCHANGED reqVars /\ UNCHANGED hamVars

\* the loop condition fails: return tables
ScanReturn ==
    /\ pc = "scan"
    /\ ~ScanGoesOn(qt_data, qt_i)
    /\ pc' = "qt_returned"
    /\ UNCHANGED qtVars
    /\ UNCHANGED unitVars /\ UNCHANGED aggVars /\ UNCHANGED reqVars /\ UNCHANGED hamVars

NextQT == ScanByte \/ ScanSegment \/ ScanReturn

SpecQT == InitQT /\ [][NextQT]_vars

\* the function runs on: a call that has not returned takes its next step
SpecQTFair == SpecQT /\ WF_vars(NextQT)

(***************************************************************************)
(* SpecHam: _hamming_distance on every pair of hex strings of up to        *)
(* MaxHashLen digits drawn from HexDigitSamples.                           *)
(***************************************************************************)
MaxHashLen == 3

HexDigitSamples == {0, 1, 10, 15}

HexStrings == UNION {[1..n -> HexDigitSamples] : n \in 1..MaxHashLen}

InitHam ==
    /\ pc = "ham_call"
    /\ hash1 \in HexStrings
    /\ hash2 \in HexStrings
    /\ distance = None
    /\ QtIdle
    /\ PipeIdle
    /\ prev = None
    /\ nreq = 0

\* if len(hash1) != len(hash2): return -1
HammingMismatch ==
    /\ pc = "ham_call"
    /\ Len(hash1) # Len(hash2)
    /\ distance' = hamming_distance(hash1, hash2)
    /\ pc' = "ham_returned"
    /\ UNCHANGED <<hash1, hash2>>
    /\ UNCHANGED unitVars /\ UNCHANGED aggVars /\ UNCHANGED reqVars /\ UNCHANGED qtVars

\* the comparison of the binary expansions
HammingCompare ==
    /\ pc = "ham_call"
    /\ Len(hash1) = Len(hash2)
    /\ distance' = hamming_distance(hash1, hash2)
    /\ pc' = "ham_returned"
    /\ UNCHANGED <<hash1, hash2>>
    /\ UNCHANGED unitVars /\ UNCHANGED aggVars /\ UNCHANGED reqVars /\ UNCHANGED qtVars

NextHam == HammingMismatch \/ HammingCompare

SpecHam == InitHam /\ [][NextHam]_vars

(***************************************************************************)
(* Properties of the aggregator (checked under SpecAgg).                   *)
(***************************************************************************)
\* the weights as the specification states them, in hundredths
StatedWeight(k) ==
    CASE k = "metadata" -> 20
      [] k = "ela" -> 35
      [] k = "noise" -> 25
      [] k = "hash" -> 5
      [] k = "compression" -> 15

RECURSIVE SumOver(_, _)
SumOver(S, g) ==
    IF S = {} THEN 0
    ELSE LET k == CHOOSE k \in S : TRUE IN g[k] + SumOver(S \ {k}, g)

\* the raw score under each key of results
RawOf(res) == [k \in DictKeys(res) |-> DictGet(res, k).score]

\* sum over the analyzers present of raw score times stated weight, in hundredths
StatedSum(res) ==
    SumOver(DictKeys(res), [k \in DictKeys(res) |-> RawOf(res)[k] * StatedWeight(k)])

\* 100 times the sum of the stated weights of the analyzers present, in hundredths
StatedCeiling(res) ==
    SumOver(DictKeys(res), [k \in DictKeys(res) |-> 100 * StatedWeight(k)])

Aggregated == pc = "done" /\ overall # None

\* C2 as stated: the overall score is the weighted sum itself, clamped to
\* [0,100], and never exceeds 100 times the sum of the weights present.
C2_ScoreIsWeightedSum ==
    Aggregated =>
        /\ overall.score * 10 = Min(10000, Max(0, StatedSum(results)))
        /\ overall.score * 10 <= StatedCeiling(results)

\* C2 amended: the overall score is the weighted sum (fixed weights, analyzers
\* present only) rounded to one decimal place and clamped to [0,100]; it never
\* exceeds 100 times the sum of the weights present.
C2_ScoreIsRoundedWeightedSum ==
    Aggregated =>
        /\ overall.score \in 0..1000
        /\ overall.score * 10 - StatedSum(results) \in -5..5
        /\ ~IsTie(StatedSum(results)) => overall.score * 10 - StatedSum(results) \in -4..4
        /\ overall.score * 10 <= StatedCeiling(results)

\* a partial set of reports whose weighted sum has a digit in the hundredths
C2_Witness ==
    /\ Aggregated
    /\ DictKeys(results) = {"hash", "compression"}
    /\ StatedSum(results) = 225
    /\ overall.score \in {22, 23}

\* C3: the verdict and confidence follow the bands of the overall score:
\* >= 60 FAKE/High, >= 35 SUSPICIOUS/Medium, >= 15 UNCERTAIN/Low, else
\* AUTHENTIC/High.
C3_VerdictBands ==
    Aggregated =>
        LET s == overall.score
            vc == <<overall.verdict, overall.confidence>>
        IN  /\ (s >= 600) <=> (vc = <<"FAKE", "High">>)
            /\ (s >= 350 /\ s < 600) <=> (vc = <<"SUSPICIOUS", "Medium">>)
            /\ (s >= 150 /\ s < 350) <=> (vc = <<"UNCERTAIN", "Low">>)
            /\ (s < 150) <=> (vc = <<"AUTHENTIC", "High">>)

\* an overall score exactly on the lower bound of the FAKE band
C3_Witness ==
    /\ Aggregated
    /\ overall.score = 600
    /\ overall.verdict = "FAKE"

\* C4: with all five reports present, all raw scores 0 give score 0 and
\* AUTHENTIC, all raw scores 100 give score 100 and FAKE.
C4_Extremes ==
    (Aggregated /\ DictKeys(results) = Analyzers) =>
        /\ (\A k \in Analyzers : RawOf(results)[k] = 0)
              => (overall.score = 0 /\ overall.verdict = "AUTHENTIC")
        /\ (\A k \in Analyzers : RawOf(results)[k] = 100)
              => (overall.score = 1000 /\ overall.verdict = "FAKE")

\* all five analyzers reported 100 and the aggregate is computed
C4_Witness ==
    /\ Aggregated
    /\ DictKeys(results) = Analyzers
    /\ \A k \in Analyzers : RawOf(results)[k] = 100
    /\ overall.score = 1000

RECURSIVE CanonicalOrder(_, _)
CanonicalOrder(res, k) ==
    IF k = 0 THEN <<>>
    ELSE LET head == CanonicalOrder(res, k - 1)
             key == WeightKeys[k]
         IN  IF DictHas(res, key)
             THEN Append(head, [key |-> key, val |-> DictGet(res, key)])
             ELSE head

\* C6: the report does not depend on the order in which the reports were put
\* into results: it equals the report computed from the same items inserted
\* in the order metadata, ela, noise, hash, compression.
C6_OrderIrrelevant ==
    Aggregated =>
        overall = calculate_suspicion_score(CanonicalOrder(results, Len(WeightKeys)), fp)

\* reports inserted in an order other than that of weights, with distinct scores
C6_Witness ==
    /\ Aggregated
    /\ Len(results) >= 2
    /\ results[1].key = "compression"
    /\ results[2].key = "metadata"
    /\ results[1].val.score # results[2].val.score

(***************************************************************************)
(* Properties of the analyzers (checked under SpecUnit).                   *)
(***************************************************************************)
\* the string each analyzer appends when no rule has triggered
StatedFallback(a) ==
    CASE a = "metadata" -> "No metadata anomalies detected"
      [] a = "ela" -> "ELA shows consistent error levels"
      [] a = "noise" -> "Noise analysis shows consistent patterns"
      [] a = "hash" -> "Hash analysis nominal"
      [] a = "compression" -> "No compression anomalies detected"

Returned == pc = "returned" /\ "score" \in DOMAIN report

FlagSet(r) == {r.flags[i] : i \in DOMAIN r.flags}

\* C1: every report an analyzer returns has an integer score in [0,100] and a
\* non-empty list of flags; the fallback string is a flag exactly when no
\* rule added to the score, and it is then the only flag.
C1_ReportWellFormed ==
    Returned =>
        /\ report.score \in 0..100
        /\ Len(report.flags) >= 1
        /\ report.score = 0 => report.flags = <<StatedFallback(fn)>>
        /\ StatedFallback(fn) \in FlagSet(report) => (report.score = 0 /\ Len(report.flags) = 1)

\* a report whose rules add up to more than 100, one with no rule triggered
\* and one of a file that does not open
C1_WitnessCapped ==
    /\ Returned
    /\ fn = "metadata"
    /\ report.score = 100
    /\ Len(report.flags) >= 6

(***************************************************************************)
(* Claims about the request pipeline, under Spec.                          *)
(***************************************************************************)
\* run_all_analyzers has been left, by its return or by an exception
AnalyzersLeft == pc \in {"score", "except"}

\* C7: an analyzer that fails inside its own computation returns the neutral
\* report and raises nothing, so that run_all_analyzers is left with five
\* well-formed reports for every file, the one failure hiding no other report.
C7_FiveReportsForEveryFile ==
    AnalyzersLeft =>
        /\ pc = "score"
        /\ DictKeys(results) = Analyzers
        /\ \A k \in Analyzers : DictGet(results, k).score \in 0..100
        /\ \A k \in Analyzers :
              (~file.loads /\ k = "compression") => IsNeutral(DictGet(results, k))

\* C8: a file that cannot be decoded as an image at all makes the request
\* fail: its response is never a success carrying an overall score and verdict
\* made of the analyzers' fallback scores.
C8_UndecodableFileFailsRequest ==
    (pc = "done" /\ file # None /\ ~file.opens) =>
        (response.code # 200 /\ "overall" \notin DOMAIN response.body)

\* C9: two requests with byte-identical files get identical overall reports,
\* whatever the names under which the files were uploaded and stored.
C9_SameBytesSameReport ==
    (pc = "done" /\ response.code = 200 /\ prev # None /\ prev.file = file)
        => response.body.overall = prev.overall

(***************************************************************************)
(* Claims about the quantization-table parser, under SpecQT.               *)
(***************************************************************************)
RECURSIVE Flatten(_)
Flatten(segs) == IF segs = <<>> THEN <<>> ELSE segs[1] \o Flatten(Tail(segs))

\* the tables a stream was written with, in stream order
StatedTables(segs) == Flatten(segs)

\* C10: from a stream of well-formed quantization-table segments the parser
\* returns every table with its id, its precision flag and its 64 coefficient
\* values in stream order, for 8-bit and for 16-bit tables.
C10_TablesExtractedExactly ==
    pc = "qt_returned" =>
        \A segs \in QtSources :
            qt_data = QtStream(segs) => qt_tables = StatedTables(segs)

(***************************************************************************)
(* Claims about the rules of the analyzers, under SpecUnit.                *)
(***************************************************************************)
\* the call returned a report computed from a decoded image
Analyzed(a) == Returned /\ fn = a /\ file.opens

\* the stated contribution of the double-compression sub-check, ratio r in
\* thousandths
StatedDcIncrement(r) == IF r > 1300 THEN 35 ELSE IF r > 1150 THEN 15 ELSE 0

\* C11: for a JPEG with boundary/interior ratio r the double-compression
\* sub-check adds 35 with detected = true and confidence min(100, (r-1)*100)
\* when r > 1.3, adds 15 with detected = false and the finding in the flags
\* when 1.15 < r <= 1.3, and adds nothing when r <= 1.15.
C11_DoubleCompressionContribution ==
    (Analyzed("compression") /\ is_jpeg(file) /\ file.comp.dc_ratio >= 0) =>
        LET r == file.comp.dc_ratio
            dc == report.details.double_compression
            others == QtableFirings(extract_quantization_tables(file.data))
                      \o QualityRule(file)
        IN  /\ report.score = Min(100, SumInc(others) + StatedDcIncrement(r))
            /\ dc.detected = (r > 1300)
            /\ r > 1300 => dc.confidence = Min(100, (r - 1000) \div 10)
            /\ (r > 1150 /\ r <= 1300) =>
                   "Mild block boundary artifacts" \in FlagSet(report)
            /\ r <= 1150 => "Mild block boundary artifacts" \notin FlagSet(report)

(***************************************************************************)
(* Claims about _hamming_distance, under SpecHam.                          *)
(***************************************************************************)
\* bit k (0: lowest) of the hex digit x
BitOf(x, k) == (x \div (2 ^ k)) % 2

\* the number of bit positions in which the 4-bit expansions of two hex
\* strings of equal length differ
StatedDistance(h1, h2) ==
    Cardinality({<<p, k>> \in (DOMAIN h1) \X (0..3) : BitOf(h1[p], k) # BitOf(h2[p], k)})

\* C12: for two hex strings of equal length _hamming_distance returns the
\* number of bit positions in which their 4-bit-per-character expansions
\* differ; the distance of a hash to itself, and so of the hashes of two
\* pixel-identical images, is 0.
C12_HammingDistance ==
    (pc = "ham_returned" /\ Len(hash1) = Len(hash2)) =>
        /\ distance = StatedDistance(hash1, hash2)
        /\ hash1 = hash2 => distance = 0

\* two strings of full length with leading zero digits that differ in 5 bits
C12_Witness ==
    /\ pc = "ham_returned"
    /\ Len(hash1) = MaxHashLen /\ Len(hash2) = MaxHashLen
    /\ hash1[1] = 0 /\ hash2[1] = 0 /\ hash1[2] = 0 /\ hash2[2] = 1
    /\ distance = 5

\* the flags of the block statistics
BlockFlags ==
    {"Very high block-level variance", "Elevated block-level variance",
     "Slightly elevated block variance", "Significant number of outlier blocks",
     "Some outlier blocks detected"}

\* C13: for a perfectly uniform image of any width and height analyze_ela
\* reports block_std = 0 and outlier ratio 0 in its details and adds no score
\* for block variance or outlier blocks.
C13_UniformImageReportsZero ==
    (Analyzed("ela") /\ file.loads /\ file.ela.hot = file.ela.base) =>
        /\ {"block_var_n2", "outlier_blocks"} \subseteq DOMAIN report.details
        /\ report.details.block_var_n2 = 0
        /\ report.details.outlier_blocks = 0
        /\ FlagSet(report) \cap BlockFlags = {}

\* the means of the aligned 8x8 blocks that lie fully inside the image, row
\* by row
StatedBlockMeans(f) ==
    LET rows == f.size[2] \div BLOCK_SIZE
        cols == f.size[1] \div BLOCK_SIZE
    IN  [k \in 1..(rows * cols) |->
            BlockMean(f, ((k - 1) \div cols) * BLOCK_SIZE, ((k - 1) % cols) * BLOCK_SIZE)]

\* C14: every aligned 8x8 block that lies fully inside the image gives one
\* block mean: floor(W/8) * floor(H/8) block means enter block_std and the
\* outlier ratio, the last block row and column included when W or H is a
\* multiple of 8.
C14_EveryFullBlockCounted ==
    (Analyzed("ela") /\ file.loads) =>
        LET stated == StatedBlockMeans(file) IN
        IF Len(stated) = 0
        THEN "blocks" \notin DOMAIN report.details
        ELSE /\ "blocks" \in DOMAIN report.details
             /\ report.details.blocks = Len(stated)
             /\ report.details.block_sum = SeqSum(stated)
             /\ report.details.block_var_n2 = VarN2(stated)

\* C15: analyze_ela adds the lossless-source penalty exactly when the decoded
\* format of the image is PNG and the mean raw difference exceeds 5, whatever
\* the extension of the path the file is stored under.
C15_LosslessPenaltyByFormat ==
    (Analyzed("ela") /\ file.loads) =>
        ("PNG image shows elevated ELA levels" \in FlagSet(report)
            <=> (file.format = "PNG" /\ file.ela.mean_diff > 500))

\* C16: analyze_noise adds the 'too uniform' penalty exactly when the
\* coefficient of variation of the 64 cells is below 3 and the mean noise of
\* the cells is above 5, and the 'suspiciously smooth' penalty exactly when
\* the global noise is below 1.5 and the regional mean is below 2.
C16_UniformAndSmoothPenalties ==
    (Analyzed("noise") /\ file.loads) =>
        LET rn == file.noise.regional
            g == file.noise.global_noise
        IN  /\ "Suspiciously uniform noise" \in FlagSet(report)
                <=> (CvBelow3(rn) /\ SeqSum(rn) > 50 * Len(rn))
            /\ "Extremely low noise" \in FlagSet(report)
                <=> (g < 15 /\ SeqSum(rn) < 20 * Len(rn))

\* the rules of the metadata analyzer but the text-chunk rule
OtherMetadataRules(f) ==
    When(f.format # "None" /\ f.format \notin SCREENSHOT_FORMATS,
         "Unusual format for a screenshot", 15)
    \o ExifRules(f) \o ResolutionRule(f) \o SmallFileRule(f) \o ModeRule(f) \o DpiRule(f)

\* the stated text-chunk rule: 25 once if any chunk of a PNG matches
StatedTextChunkIncrement(f) ==
    IF f.format = "PNG" /\ \E i \in DOMAIN f.text : MatchesDenylist(f.text[i].val)
    THEN 25 ELSE 0

\* C17: the metadata score is min(100, sum of the increments of the triggered
\* rules), each rule adding its increment at most once per image: 25 for the
\* text-chunk rule however many chunks match, 35 for the software tag
\* however many denylist entries match.
C17_EachRuleAtMostOnce ==
    Analyzed("metadata") =>
        report.score = Min(100, SumInc(OtherMetadataRules(file))
                                + StatedTextChunkIncrement(file))

(***************************************************************************)
(* Claims about the temporary file of a request, under Spec.               *)
(***************************************************************************)
AnalyzerSteps == {"metadata", "ela", "noise", "hash", "compression"}

ScanIteration == ScanByte \/ ScanSegment

\* the value returned is a list of tables, each of an id, a precision and 64 values
ReturnsList ==
    pc = "qt_returned" =>
        \A k \in DOMAIN qt_tables :
            /\ qt_tables[k].id \in 0..15
            /\ qt_tables[k].precision \in 0..15
            /\ Len(qt_tables[k].values) = 64

\* C19: _extract_quantization_tables returns a list for every byte string
\* and raises nothing: every iteration of its loop reads inside the data and
\* strictly increases the scan index, also at a marker followed by a length
\* of 0 or 1, by a length running past the end, by a truncated table or by
\* the end of the stream, and the call returns.
C19_ScanTerminates ==
    /\ [][ScanIteration => qt_i' > qt_i]_vars
    /\ [](pc = "scan" /\ ScanGoesOn(qt_data, qt_i) => qt_i + 1 < Len(qt_data))
    /\ []ReturnsList
    /\ <>(pc = "qt_returned")

\* the call returned no table from a marker with the declared length 0: the
\* scan went on behind the marker and over the length bytes
C19_Witness ==
    /\ pc = "qt_returned"
    /\ qt_data = <<255, 219, 0, 0>>
    /\ qt_i = 3
    /\ qt_tables = <<>>

====
